---- MODULE Spec2Model ----
(***************************************************************************)
(* Model of the win-probability / risk-scoring pipeline of the bid review  *)
(* system: bids/ml/bid_predictor.py (class BidPredictor) and its callers   *)
(* in bids/views.py and bids/tasks.py.                                     *)
(*                                                                         *)
(* Five specifications share the variables: Spec (the calls the           *)
(* application makes on one predictor), SpecSave (save_models and          *)
(* get_model_status called on it as well), SpecConc (two workers over one  *)
(* models directory), SpecExtract (_extract_features and                   *)
(* _calculate_risk_scores on one bid) and SpecRecommend                    *)
(* (get_recommendations on one prediction).                                *)
(*                                                                         *)
(* Probabilities are integers in hundredths (50 stands for 0.5).           *)
(* An artifact object carries the training run that produced it (run 0 is  *)
(* the set deployed with the application), whether it is fitted, and the   *)
(* size of the bid table it was fitted on.                                 *)
(***************************************************************************)
EXTENDS Integers, Sequences, FiniteSets, TLC

VARIABLES
    disk,      \* ML_MODELS_DIR: file name -> [state, obj]
    nBids,     \* the Bid table holds bids 1..nBids of the catalogue below
    runs,      \* number of training runs that have started fitting
    inst,      \* one BidPredictor instance driven by sequential calls
    last,      \* what the last completed call did and returned
    workers,   \* concurrent workers, each with its own BidPredictor
    today,     \* timezone.now().date(), as a day number
    fx,        \* one bid, its customer and the customer's other bids, with the
               \* features last extracted from them and the risk label of that row
    rec        \* a prediction handed to get_recommendations, with the bid it
               \* was made for and the list returned

vars == <<disk, nBids, runs, inst, last, workers, today, fx, rec>>

-----------------------------------------------------------------------------
(* Bounds of the model *)

MaxBids == 13
MaxRuns == 1
MaxWorkerRuns == 2
MaxDay == 1

(* Program constants *)

MinTrainingRows == 10

\* the sequential runs start from a bid table of this size: one eligible row
\* short of a trainable table
InitialBids == MinTrainingRows
DefaultScore == 50
ModelConfidence == 80

-----------------------------------------------------------------------------
(* The Bid and Customer tables: a fixed catalogue of bids, of which the    *)
(* database holds the first nBids.                                         *)

TerminalStatuses == {"won", "lost", "approved", "rejected"}

StatusCycle == <<"won", "lost", "approved", "rejected">>

\* bid 6 is still a draft; every other bid of the catalogue is closed
BidStatus(i) == IF i % 12 = 6 THEN "draft" ELSE StatusCycle[(i % 4) + 1]

BidCustomer(i) == (i % 2) + 1

BidValueCycle == <<5, 12, 20>>

\* bid_value in units of 100,000
BidValue(i) == BidValueCycle[(i % 3) + 1]

\* Bid.requirements is a JSONField: a dict (sized), the empty dict, or any
\* other JSON value such as a number, which is truthy and has no len().
BidRequirements(i) == IF i % 13 = 0 THEN "number" ELSE IF i % 2 = 0 THEN "dict" ELSE "empty"

CustomerType(c) == IF c = 1 THEN "corporate" ELSE "government"

CustomerIndustry(c) == IF c = 1 THEN "" ELSE "energy"

BidRegion(i) == IF i % 6 = 0 THEN "latam" ELSE IF i % 2 = 0 THEN "emea" ELSE "apac"

CatColumns ==
    {"customer_type", "customer_industry", "business_unit", "bid_level",
     "priority", "complexity", "region"}

\* The columns pandas gives dtype object: the strings, and avg_bid_value,
\* which is the Decimal that Avg('bid_value') returns (never cast to float).
ObjectColumns == CatColumns \cup {"avg_bid_value"}

CustomerBids(c, n) == {j \in 1..n : BidCustomer(j) = c}

RECURSIVE SumValues(_)
SumValues(S) ==
    IF S = {} THEN 0
    ELSE LET j == CHOOSE x \in S : TRUE IN BidValue(j) + SumValues(S \ {j})

\* Avg('bid_value') over the customer's bids, kept exact as <<sum, count>>
AvgBidValue(c, n) == <<SumValues(CustomerBids(c, n)), Cardinality(CustomerBids(c, n))>>

\* _extract_features raises when len() is applied to an unsized requirements value
ExtractOk(i) == BidRequirements(i) # "number"

FeatureValue(i, n, col) ==
    CASE col = "customer_type" -> CustomerType(BidCustomer(i))
      [] col = "customer_industry" ->
            IF CustomerIndustry(BidCustomer(i)) = "" THEN "unknown"
            ELSE CustomerIndustry(BidCustomer(i))
      [] col = "business_unit" -> IF i % 2 = 0 THEN "JIS" ELSE "JCS"
      [] col = "bid_level" -> "C"
      [] col = "priority" -> "medium"
      [] col = "complexity" -> "moderate"
      [] col = "region" -> BidRegion(i)
      [] col = "avg_bid_value" -> AvgBidValue(BidCustomer(i), n)

\* prepare_training_data: the rows of the training table
TrainingRowsOf == [n \in 0..MaxBids |-> {i \in 1..n : BidStatus(i) \in TerminalStatuses}]

TrainingRows(n) == TrainingRowsOf[n]

\* A plausible slip: only a won bid is a positive example
target_won_only(i) == IF BidStatus(i) = "won" THEN 1 ELSE 0

\* features['target'] = 1 if bid.status in ['won', 'approved'] else 0
target(i) == IF BidStatus(i) \in {"won", "approved"} THEN 1 ELSE 0

\* the table prepare_training_data returns, as <<bid, target>> rows
TrainingTableOf == [n \in 0..MaxBids |-> {<<i, target(i)>> : i \in TrainingRows(n)}]

prepare_training_data(n) == TrainingTableOf[n]

PrepareOk(n) == \A i \in TrainingRows(n) : ExtractOk(i)

-----------------------------------------------------------------------------
(* Artifact objects and files *)

NoneObj == [kind |-> "none", run |-> 0, fitted |-> FALSE, table |-> 0]

Regressor(r, f) == [kind |-> "model", run |-> r, fitted |-> f, table |-> 0]

Scaler(r, f) == [kind |-> "scaler", run |-> r, fitted |-> f, table |-> 0]

\* the label encoders remember the table they were fitted on: their classes
\* are the values of that table

Encoders(r, f, t) == [kind |-> "encoders", run |-> r, fitted |-> f, table |-> t]

Slots == <<"win_predictor", "risk_predictor", "scaler", "label_encoders">>

PklFiles == <<"win_predictor.pkl", "risk_predictor.pkl", "scaler.pkl", "label_encoders.pkl">>

ImportanceFile == "feature_importance.json"

AllFiles == {PklFiles[k] : k \in 1..4} \cup {ImportanceFile}

Absent == [state |-> "absent", obj |-> NoneObj]

Corrupt == [state |-> "corrupt", obj |-> NoneObj]

Stored(o) == [state |-> "ok", obj |-> o]

\* BidPredictor.__init__
FreshInstance ==
    [win_predictor |-> NoneObj, risk_predictor |-> NoneObj,
     scaler |-> Scaler(0, FALSE), label_encoders |-> Encoders(0, FALSE, 0)]

-----------------------------------------------------------------------------
(* Label encoding, scaling and model evaluation *)

Classes(col, t) == {FeatureValue(j, t, col) : j \in TrainingRows(t)}

\* LabelEncoder.classes_ membership; two averages are the same Decimal when
\* they are the same fraction
Seen(col, v, t) ==
    IF col = "avg_bid_value"
    THEN \E c \in Classes(col, t) : c[1] * v[2] = v[1] * c[2]
    ELSE v \in Classes(col, t)

\* the labels of the categorical columns in the order Python sorts strings
\* (by code point: upper case before lower case)
Lexicon ==
    <<"C", "JCS", "JIS", "apac", "corporate", "emea", "energy", "government",
      "latam", "medium", "moderate", "unknown">>

Rank(v) == CHOOSE k \in 1..Len(Lexicon) : Lexicon[k] = v

LabelBelow(u, v) == Rank(u) < Rank(v)

\* Bid.Meta.ordering = ['-created_at']: the table's rows are the eligible
\* bids newest first; the position of bid j's row, counted from 0
RowPosition(j, t) == Cardinality({k \in TrainingRows(t) : k > j})

\* LabelEncoder.classes_ of a categorical column after fit on the table of t
\* bids: the sorted distinct values
classes_(col, t) ==
    LET C == Classes(col, t) IN
        [k \in 1..Cardinality(C) |->
            CHOOSE v \in C : Cardinality({u \in C : LabelBelow(u, v)}) = k - 1]

\* LabelEncoder.fit_transform on a categorical column of the table of t bids:
\* the code each row receives, by position of the row
fit_transform(col, t) ==
    [pos \in 0..(Cardinality(TrainingRows(t)) - 1) |->
        LET j == CHOOSE k \in TrainingRows(t) : RowPosition(k, t) = pos
        IN  Cardinality({u \in Classes(col, t) : LabelBelow(u, FeatureValue(j, t, col))})]

\* A plausible slip: the encoder is fitted again on the value to encode
transform_refit(col, v, enc) == 0

\* LabelEncoder.transform([v]) with the stored encoder of the column: the
\* index of v in classes_
transform(col, v, enc) ==
    (CHOOSE k \in DOMAIN classes_(col, enc.table) : classes_(col, enc.table)[k] = v) - 1

\* A plausible slip: an unknown label is given some existing code
LenientTransformOk(col, v, t) == TRUE

\* LabelEncoder.transform raises ValueError on a label it was not fitted on
TransformOk(col, v, t) == Seen(col, v, t)

\* every object column of bid b's feature row, extracted from a table of n
\* bids, transforms under encoders fitted on a table of t bids
RowEncodes ==
    [b \in 1..MaxBids, n \in 1..MaxBids, t \in 0..MaxBids |->
        \A col \in ObjectColumns : TransformOk(col, FeatureValue(b, n, col), t)]

\* The encoding loop of predict_for_bid: only columns that have an encoder
\* are transformed
EncodeOk(i, b, n) ==
    /\ i.label_encoders.kind = "encoders"
    /\ i.label_encoders.fitted => RowEncodes[b, n, i.label_encoders.table]

\* scaler.transform raises on an unfitted scaler and on a column that still
\* holds strings (no encoder for it)
ScaleOk(i) ==
    /\ i.scaler.kind = "scaler"
    /\ i.scaler.fitted
    /\ i.label_encoders.fitted

\* regressor.predict raises on None and on an unfitted regressor
EvalOk(i) ==
    /\ i.win_predictor.kind = "model" /\ i.win_predictor.fitted
    /\ i.risk_predictor.kind = "model" /\ i.risk_predictor.fitted

\* What a fitted GradientBoostingRegressor may return (hundredths): it is a
\* regressor, so nothing keeps its output inside [0, 100]
RegressorOutputs == {40, 120}

-----------------------------------------------------------------------------
(* Prediction results *)

EmptyFeatures == "empty"

\* _get_default_prediction
DefaultPrediction ==
    [win_probability |-> DefaultScore, risk_score |-> DefaultScore,
     confidence |-> DefaultScore, features |-> EmptyFeatures,
     keys |-> {"win_probability", "risk_score", "confidence", "features"}]

\* A plausible slip: the confidence is derived from the win probability
ModelPredictionDerivedConfidence(w, r) ==
    [win_probability |-> w, risk_score |-> r,
     confidence |-> IF w > DefaultScore THEN w ELSE 2 * DefaultScore - w,
     features |-> "extracted",
     keys |-> {"win_probability", "risk_score", "confidence", "features", "timestamp"}]

\* the dict built at the end of the try block of predict_for_bid
ModelPrediction(w, r) ==
    [win_probability |-> w, risk_score |-> r,
     confidence |-> ModelConfidence, features |-> "extracted",
     keys |-> {"win_probability", "risk_score", "confidence", "features", "timestamp"}]

NoResult ==
    [win_probability |-> 0, risk_score |-> 0, confidence |-> 0,
     features |-> "none", keys |-> {}]

-----------------------------------------------------------------------------
(* load_models and save_models *)

\* joblib.load of the k-th file succeeds
Loadable(d, k) == d[PklFiles[k]].state = "ok"

\* one assignment of load_models: self.<slot k> = joblib.load(<file k>)
load_step(i, d, k) == [i EXCEPT ![Slots[k]] = d[PklFiles[k]].obj]

\* the loads of load_models from the k-th on: the first failure ends them,
\* and the assignments made before it stay
RECURSIVE load_from(_, _, _)
load_from(i, d, k) ==
    IF k > 4 THEN [inst |-> i, raised |-> FALSE]
    ELSE IF ~Loadable(d, k) THEN [inst |-> i, raised |-> TRUE]
    ELSE load_from(load_step(i, d, k), d, k + 1)

\* A plausible slip: the error is logged and swallowed
load_models_swallow(i, d) == [inst |-> load_from(i, d, 1).inst, raised |-> FALSE]

\* load_models: four loads in file order; a failure is logged and re-raised
load_models(i, d) == load_from(i, d, 1)

\* A plausible slip: the existence test is inverted, so the files are never
\* seen
models_exist_never(d) == FALSE

\* _models_exist: corrupt files exist too
models_exist(d) == \A k \in 1..4 : d[PklFiles[k]].state # "absent"

\* one joblib.dump of save_models; a dump that fails leaves its file as it
\* was, or torn
dump_step(i, d, k, fails, torn) ==
    IF ~fails THEN [d EXCEPT ![PklFiles[k]] = Stored(i[Slots[k]])]
    ELSE IF torn THEN [d EXCEPT ![PklFiles[k]] = Corrupt]
    ELSE d

\* the dumps of save_models from the k-th on; the dump that fails (failAt,
\* 0: none) ends them
RECURSIVE save_from(_, _, _, _, _)
save_from(i, d, k, failAt, torn) ==
    IF k > 4 THEN d
    ELSE IF k = failAt THEN dump_step(i, d, k, TRUE, torn)
    ELSE save_from(i, dump_step(i, d, k, FALSE, FALSE), k + 1, failAt, torn)

\* save_models: four dumps in file order inside one try; an error is logged,
\* never raised
save_models(i, d, failAt, torn) ==
    [disk |-> save_from(i, d, 1, failAt, torn), failed |-> failAt # 0]

\* _save_feature_importance: nothing without a win predictor; reading
\* feature_importances_ of an unfitted regressor and a failed write are both
\* caught and logged
save_feature_importance(i, d, failed, torn) ==
    IF i.win_predictor.kind = "none" \/ ~i.win_predictor.fitted THEN d
    ELSE IF failed THEN (IF torn THEN [d EXCEPT ![ImportanceFile] = Corrupt] ELSE d)
    ELSE [d EXCEPT ![ImportanceFile] = Stored(i.win_predictor)]

-----------------------------------------------------------------------------
(* get_model_status *)

StatusKeys == {"name", "status", "accuracy", "last_trained", "version"}

NoStatus ==
    [name |-> "", status |-> "", accuracy |-> "", version |-> "",
     last_trained |-> [null |-> TRUE, mtime_of |-> ""], keys |-> {}]

\* the dict returned on the three error paths
ErrorStatus(name) ==
    [name |-> name, status |-> "error", accuracy |-> "None", version |-> "None",
     last_trained |-> [null |-> TRUE, mtime_of |-> ""], keys |-> StatusKeys]

\* the dict returned on the success path: none of the objects has a score_
\* attribute, and last_trained is the modification time of <name>.pkl
TrainedStatus(name) ==
    [name |-> name, status |-> "trained", accuracy |-> "None", version |-> "1.0",
     last_trained |-> [null |-> FALSE, mtime_of |-> name], keys |-> StatusKeys]

\* model_path / f'{model_name}.pkl'
ModelFile(d, name) ==
    IF \E k \in 1..4 : Slots[k] = name
    THEN d[PklFiles[CHOOSE k \in 1..4 : Slots[k] = name]]
    ELSE Absent

\* the truth value of self.win_predictor / self.risk_predictor: None is
\* false; an ensemble's truth value is its len(), which is len(estimators_),
\* an attribute that exists only once the regressor is fitted
Truth(obj) ==
    IF obj.kind = "none" THEN "false"
    ELSE IF obj.fitted THEN "true"
    ELSE "raises"

get_model_status(i, d, name) ==
    IF ModelFile(d, name).state = "absent" THEN ErrorStatus(name)
    ELSE IF name = "win_predictor" /\ Truth(i.win_predictor) # "false"
    THEN (IF Truth(i.win_predictor) = "true" THEN TrainedStatus(name)
          ELSE ErrorStatus(name))
    ELSE IF name = "risk_predictor" /\ Truth(i.risk_predictor) # "false"
    THEN (IF Truth(i.risk_predictor) = "true" THEN TrainedStatus(name)
          ELSE ErrorStatus(name))
    ELSE IF ModelFile(d, name).state = "ok" THEN TrainedStatus(name)
    ELSE ErrorStatus(name)

\* the model names asked for
StatusNames == {Slots[k] : k \in 1..4} \cup {"other"}

-----------------------------------------------------------------------------
(* train_models *)

\* train_test_split(test_size=0.2): n_test = ceil(0.2 n), n_train = n - n_test
TestSize(rows) == (rows + 4) \div 5

TrainSize(rows) == rows - TestSize(rows)

\* _calculate_risk_scores(df): one label per row of df, the whole table
RiskLabelCount(rows) == rows

\* A plausible slip: the guard is off by one
NotEnoughDataOffByOne(rows) == rows < MinTrainingRows - 1

\* df.empty or len(df) < 10
NotEnoughData(rows) == rows < MinTrainingRows

\* _encode_features on the training table: a column that already has an
\* encoder is transformed with it, not refitted
TableEncodeOk(enc, n) ==
    enc.fitted => \A j \in TrainingRows(n) : RowEncodes[j, n, enc.table]

Outcome(i, d, raised, path, rows, started) ==
    [inst |-> i, disk |-> d, raised |-> raised, path |-> path, rows |-> rows,
     x_len |-> IF path \in {"risk_fit", "trained"} THEN TrainSize(rows) ELSE 0,
     y_len |-> IF path \in {"risk_fit", "trained"} THEN RiskLabelCount(rows) ELSE 0,
     started |-> started]

\* the fitting part of train_models (lines 112-165), entered with enough rows
fit_and_save(i, d, n, r, failAt, torn) ==
    LET rows == Cardinality(TrainingRows(n))
        enc == IF i.label_encoders.fitted THEN i.label_encoders ELSE Encoders(r, TRUE, n)
        fitted == [win_predictor |-> Regressor(r, TRUE),
                   risk_predictor |-> Regressor(r, FALSE),
                   scaler |-> Scaler(r, TRUE),
                   label_encoders |-> enc]
        done == [fitted EXCEPT !.risk_predictor = Regressor(r, TRUE)]
        saved == save_models(done, d, IF failAt \in 1..4 THEN failAt ELSE 0, torn)
    IN  IF ~TableEncodeOk(i.label_encoders, n)
        THEN Outcome(i, d, TRUE, "encode", rows, TRUE)
        ELSE IF TrainSize(rows) # RiskLabelCount(rows)
        THEN \* fit(X_train, risk_scores): ValueError, inconsistent numbers of samples
             Outcome(fitted, d, TRUE, "risk_fit", rows, TRUE)
        ELSE Outcome(done, save_feature_importance(done, saved.disk, failAt = 5, torn),
                     FALSE, "trained", rows, TRUE)

train_models(i, d, n, r, retrain, failAt, torn) ==
    IF ~retrain /\ models_exist(d)
    THEN Outcome(load_models(i, d).inst, d, load_models(i, d).raised, "loaded", 0, FALSE)
    ELSE IF ~PrepareOk(n)
    THEN Outcome(i, d, TRUE, "extract", 0, FALSE)
    ELSE IF NotEnoughData(Cardinality(TrainingRows(n)))
    THEN Outcome(i, d, FALSE, "insufficient", Cardinality(TrainingRows(n)), FALSE)
    ELSE fit_and_save(i, d, n, r, failAt, torn)

\* MLTrainingView.post: success unless train_models raised
MLTrainingView_post(raised) ==
    IF raised THEN "Failed to train models" ELSE "ML models trained successfully"

\* tasks.train_ml_models: returns the success string unless train_models
\* raised, and re-raises then
train_ml_models(raised) ==
    IF raised THEN "raise" ELSE "Models trained successfully"

-----------------------------------------------------------------------------
(* predict_for_bid *)

\* the try block of predict_for_bid: the results it may return, one for each
\* pair of regressor outputs when both regressors are evaluated
try_predict(i, b, n) ==
    IF EncodeOk(i, b, n) /\ ScaleOk(i) /\ EvalOk(i)
    THEN {ModelPrediction(w, r) : w \in RegressorOutputs, r \in RegressorOutputs}
    ELSE {DefaultPrediction}

\* A plausible slip: the artifact files are read on every call
lazy_load_always(i, d) == load_models(i, d)

\* the lazy load at the head of predict_for_bid
lazy_load(i, d) ==
    IF i.win_predictor.kind = "none" THEN load_models(i, d)
    ELSE [inst |-> i, raised |-> FALSE]

\* the outcomes of predict_for_bid: [inst, raised, result]
predict_for_bid(i, d, b, n) ==
    LET ld == lazy_load(i, d) IN
        IF ld.raised
        THEN {[inst |-> ld.inst, raised |-> FALSE, result |-> DefaultPrediction]}
        ELSE IF ~ExtractOk(b)
        THEN {[inst |-> ld.inst, raised |-> TRUE, result |-> NoResult]}
        ELSE {[inst |-> ld.inst, raised |-> FALSE, result |-> res] :
                 res \in try_predict(ld.inst, b, n)}

-----------------------------------------------------------------------------
(* _extract_features and _calculate_risk_scores on one bid.                *)
(* Money is in units of 1,000, complexity_score in hundredths, a risk      *)
(* label in tenths; dates are day numbers; a rate or an average is the     *)
(* pair <<numerator, denominator>>.                                        *)

\* a nullable column: NULL or a value
Null == [null |-> TRUE, v |-> 0]

Val(x) == [null |-> FALSE, v |-> x]

\* Python's `x or d`: d when x is None, and also when x is zero
OrDefault(f, d) == IF f.null \/ f.v = 0 THEN d ELSE f.v

\* Bid.days_until_due: bid_due_date minus timezone.now().date()
days_until_due(bid, day) ==
    IF bid.bid_due_date.null THEN Null ELSE Val(bid.bid_due_date.v - day)

WonStatuses == {"won", "approved"}

\* Bid.objects.filter(customer=customer): the customer's stored bids, the bid
\* itself among them once it is stored
customer_bids(bid, stored, others) ==
    IF stored THEN <<[status |-> bid.status, bid_value |-> bid.bid_value]>> \o others
    ELSE others

\* won_bids / total_bids, or 0.5 for a customer without stored bids
historical_win_rate(cb) ==
    IF Len(cb) > 0
    THEN <<Cardinality({k \in 1..Len(cb) : cb[k].status \in WonStatuses}), Len(cb)>>
    ELSE <<1, 2>>

RECURSIVE SumBidValues(_)
SumBidValues(cb) ==
    IF cb = <<>> THEN 0
    ELSE (IF Head(cb).bid_value.null THEN 0 ELSE Head(cb).bid_value.v) + SumBidValues(Tail(cb))

\* aggregate(avg=Avg('bid_value'))['avg'] or 0: AVG skips NULLs and is NULL
\* when nothing is left
avg_bid_value(cb) ==
    LET priced == Cardinality({k \in 1..Len(cb) : ~cb[k].bid_value.null}) IN
        IF priced = 0 \/ SumBidValues(cb) = 0 THEN <<0, 1>>
        ELSE <<SumBidValues(cb), priced>>

DefaultComplexity == 50

\* Bid.requirements is a JSONField: a dict with the given keys, or another
\* JSON value such as a number other than 0
JsonDict(keys) == [json |-> "dict", keys |-> keys]

JsonNumber == [json |-> "number", keys |-> {}]

\* the truth value of a JSON value: an empty dict is false
JsonTruthy(x) == x.json = "number" \/ x.keys # {}

\* len(bid.requirements) if bid.requirements else 0: len() of a number is a
\* TypeError
requirements_raises(bid) == JsonTruthy(bid.requirements) /\ bid.requirements.json # "dict"

requirements_count(bid) ==
    IF JsonTruthy(bid.requirements) THEN Cardinality(bid.requirements.keys) ELSE 0

\* the dict built by _extract_features
extract_features(bid, customer, stored, others, day) ==
    [bid_value |-> OrDefault(bid.bid_value, 0),
     estimated_cost |-> OrDefault(bid.estimated_cost, 0),
     profit_margin |-> OrDefault(bid.profit_margin, 0),
     days_until_due |-> OrDefault(days_until_due(bid, day), 0),
     complexity_score |-> OrDefault(bid.complexity_score, DefaultComplexity),
     customer_relationship_score |-> customer.relationship_score,
     customer_annual_revenue |-> OrDefault(customer.annual_revenue, 0),
     customer_type |-> customer.customer_type,
     customer_industry |-> IF customer.industry = "" THEN "unknown" ELSE customer.industry,
     historical_win_rate |-> historical_win_rate(customer_bids(bid, stored, others)),
     avg_bid_value |-> avg_bid_value(customer_bids(bid, stored, others)),
     team_size |-> bid.team_members + 1,
     review_cycle_count |-> bid.review_cycle,
     description_length |-> bid.description_length,
     requirements_count |-> requirements_count(bid),
     business_unit |-> bid.business_unit,
     bid_level |-> bid.bid_level,
     priority |-> bid.priority,
     complexity |-> bid.complexity,
     region |-> bid.region]

HighValueThreshold == 1000

LowRelationshipThreshold == 30

HighComplexityThreshold == 70

UrgentDays == 7

ValueRisk == 3

RelationshipRisk == 2

ComplexityRisk == 2

UrgencyRisk == 2

RiskCeiling == 10

Min(a, b) == IF a < b THEN a ELSE b

Max(a, b) == IF a > b THEN a ELSE b

\* A plausible slip: min and max change places, and every label is 1.0
clamp_risk_swapped(risk) == Max(Min(risk, 0), RiskCeiling)

\* min(max(risk, 0), 1)
clamp_risk(risk) == Min(Max(risk, 0), RiskCeiling)

\* A plausible slip: the four comparisons are not strict
risk_label_inclusive(row) ==
    clamp_risk((IF row.bid_value >= HighValueThreshold THEN ValueRisk ELSE 0)
               + (IF row.customer_relationship_score <= LowRelationshipThreshold
                  THEN RelationshipRisk ELSE 0)
               + (IF row.complexity_score >= HighComplexityThreshold THEN ComplexityRisk ELSE 0)
               + (IF row.days_until_due <= UrgentDays THEN UrgencyRisk ELSE 0))

\* the body of the loop of _calculate_risk_scores: the label of one row
risk_label(row) ==
    clamp_risk((IF row.bid_value > HighValueThreshold THEN ValueRisk ELSE 0)
               + (IF row.customer_relationship_score < LowRelationshipThreshold
                  THEN RelationshipRisk ELSE 0)
               + (IF row.complexity_score > HighComplexityThreshold THEN ComplexityRisk ELSE 0)
               + (IF row.days_until_due < UrgentDays THEN UrgencyRisk ELSE 0))

\* _calculate_risk_scores: one label per row of df, in row order
calculate_risk_scores(df) == [k \in 1..Len(df) |-> risk_label(df[k])]

-----------------------------------------------------------------------------
(* get_recommendations. Scores are in hundredths.                          *)

StrategyRevision ==
    <<"Consider revising bid strategy", "Strengthen customer relationship",
      "Review pricing strategy", "Enhance technical proposal">>

Differentiators ==
    <<"Focus on key differentiators", "Clarify scope and deliverables",
      "Strengthen risk mitigation plan", "Review competitive positioning">>

RiskMitigation ==
    <<"Implement enhanced risk monitoring", "Develop contingency plans",
      "Increase management oversight">>

Engagement == "Schedule customer engagement meetings"

Acceleration == "Accelerate review and approval process"

LowWinThreshold == 30

MidWinThreshold == 60

HighRiskThreshold == 70

EngagementThreshold == 40

AccelerationDays == 14

\* dict.get(key, default)
dict_get(d, key, default) == IF key \in DOMAIN d THEN d[key] ELSE default

Range(seq) == {seq[k] : k \in 1..Len(seq)}

\* list(set(recommendations)): every member once, in no particular order,
\* given as the number of times each string occurs in the list
list_of_set(seq) == [x \in Range(seq) |-> 1]

\* the list built by the if blocks of get_recommendations, before list(set())
recommendations_list(prediction, feature_default) ==
    (IF prediction.win_probability < LowWinThreshold THEN StrategyRevision
     ELSE IF prediction.win_probability < MidWinThreshold THEN Differentiators
     ELSE <<>>)
    \o (IF prediction.risk_score > HighRiskThreshold THEN RiskMitigation ELSE <<>>)
    \o (IF dict_get(prediction.features, "customer_relationship_score",
                    feature_default.customer_relationship_score) < EngagementThreshold
        THEN <<Engagement>> ELSE <<>>)
    \o (IF dict_get(prediction.features, "days_until_due",
                    feature_default.days_until_due) < AccelerationDays
        THEN <<Acceleration>> ELSE <<>>)

ZeroDefaults == [customer_relationship_score |-> 0, days_until_due |-> 0]

\* A plausible slip: the second block is tested with if, not elif
get_recommendations_no_elif(bid, prediction) ==
    list_of_set((IF prediction.win_probability < MidWinThreshold THEN Differentiators
                 ELSE <<>>)
                \o recommendations_list(prediction, ZeroDefaults))

\* A plausible slip: a feature absent from the prediction is read from the bid
get_recommendations_from_bid(bid, prediction) ==
    list_of_set(recommendations_list(prediction,
        [customer_relationship_score |-> bid.relationship_score,
         days_until_due |-> bid.days_until_due]))

\* get_recommendations(bid, prediction): the bid is not read
get_recommendations(bid, prediction) ==
    list_of_set(recommendations_list(prediction, ZeroDefaults))

\* the prediction dict of a result of predict_for_bid for the bid: the
\* features are the bid's, or {} in the default result
PredictionDict(result, bid) ==
    [win_probability |-> result.win_probability,
     risk_score |-> result.risk_score,
     features |-> IF result.features = EmptyFeatures THEN <<>>
                  ELSE [customer_relationship_score |-> bid.relationship_score,
                        days_until_due |-> bid.days_until_due]]

\* the bids and predictions get_recommendations is called with
RecBidInputs == [relationship_score : {20, 39, 40, 80}, days_until_due : {5, 13, 14, 60}]

ResultInputs ==
    {DefaultPrediction}
    \cup {ModelPrediction(w, r) : w \in {20, 29, 30, 59, 60, 120}, r \in {50, 70, 71, 80}}

IdleRec ==
    [bid |-> CHOOSE b \in RecBidInputs : TRUE,
     prediction |-> PredictionDict(DefaultPrediction, CHOOSE b \in RecBidInputs : TRUE),
     called |-> FALSE, out |-> <<>>]

-----------------------------------------------------------------------------
(* Initial states *)

\* the bid table size at which the deployed artifact set was fitted: the
\* first size with enough rows to train on
DeployedTable ==
    CHOOSE t \in 1..MaxBids :
        /\ Cardinality(TrainingRows(t)) = MinTrainingRows
        /\ Cardinality(TrainingRows(t - 1)) < MinTrainingRows


DeployedInstance ==
    [win_predictor |-> Regressor(0, TRUE),
     risk_predictor |-> Regressor(0, TRUE),
     scaler |-> Scaler(0, TRUE),
     label_encoders |-> Encoders(0, TRUE, DeployedTable)]

EmptyDisk == [f \in AllFiles |-> Absent]

DeployedDisk ==
    [f \in AllFiles |->
        IF f = ImportanceFile THEN Stored(DeployedInstance.win_predictor)
        ELSE Stored(DeployedInstance[Slots[CHOOSE k \in 1..4 : PklFiles[k] = f]])]

\* the directory as the application may find it: empty, a complete deployed
\* set, or a deployed set with one file missing or unreadable
InitialDisks ==
    {EmptyDisk, DeployedDisk}
    \cup {[DeployedDisk EXCEPT ![PklFiles[k]] = Absent] : k \in 1..4}
    \cup {[DeployedDisk EXCEPT ![PklFiles[k]] = Corrupt] : k \in 1..4}

NoLast ==
    [op |-> "none", raised |-> FALSE, result |-> NoResult, retrain |-> FALSE,
     path |-> "", rows |-> 0, x_len |-> 0, y_len |-> 0, response |-> "",
     failed |-> FALSE, run |-> 0, bid |-> 0, again |-> FALSE, status |-> NoStatus,
     table |-> {}]

\* the bids and customers the extraction is run on
SizedBidInputs ==
    [status : {"draft", "won"},
     bid_value : {Null, Val(5), Val(1000), Val(2000)},
     estimated_cost : {Null, Val(3)},
     profit_margin : {Null, Val(3)},
     bid_due_date : {Null, Val(3), Val(7), Val(60)},
     complexity_score : {Null, Val(0), Val(10), Val(70), Val(90)},
     team_members : {1},
     review_cycle : {1},
     description_length : {40},
     requirements : {JsonDict({"scope", "sla"})},
     business_unit : {"JIS"},
     bid_level : {"C"},
     priority : {"medium"},
     complexity : {"moderate"},
     region : {"emea"}]

\* and bids whose requirements were stored as a number
BidInputs ==
    SizedBidInputs
    \cup {[b EXCEPT !.requirements = JsonNumber] :
            b \in {x \in SizedBidInputs :
                     /\ x.estimated_cost = Null /\ x.profit_margin = Null
                     /\ x.complexity_score = Null /\ x.bid_value = Val(5)}}

CustomerInputs ==
    [relationship_score : {10, 30, 80},
     annual_revenue : {Null, Val(3)},
     customer_type : {"corporate"},
     industry : {""}]

\* the customer's other stored bids
OtherBidsInputs ==
    {<<>>,
     <<[status |-> "won", bid_value |-> Val(5)]>>,
     <<[status |-> "lost", bid_value |-> Null]>>}

NoFeatures ==
    extract_features(CHOOSE b \in SizedBidInputs : \A f \in {"bid_value", "estimated_cost",
                         "profit_margin", "bid_due_date", "complexity_score"} : b[f] = Null,
                     CHOOSE c \in CustomerInputs : c.annual_revenue = Null /\ c.relationship_score = 80,
                     FALSE, <<>>, 0)

IdleFx ==
    [bid |-> CHOOSE b \in SizedBidInputs : TRUE, customer |-> CHOOSE c \in CustomerInputs : TRUE,
     stored |-> FALSE, others |-> <<>>,
     extracted |-> FALSE, raised |-> FALSE, at |-> 0, out |-> NoFeatures, risks |-> <<>>]

Procs == {1, 2}

IdleWorker == [pc |-> "idle", step |-> 0, inst |-> FreshInstance, loaded |-> FALSE]

Init ==
    /\ disk \in InitialDisks
    /\ nBids = InitialBids
    /\ runs = 0
    /\ inst = FreshInstance
    /\ last = NoLast
    /\ workers = [p \in Procs |-> IdleWorker]
    /\ today = 0
    /\ fx = IdleFx
    /\ rec = IdleRec

-----------------------------------------------------------------------------
(* Sequential calls on one instance *)

\* storage outcomes of one save: which write fails (0: none, 1..4: that
\* dump, 5: the feature-importance file) and whether it tears the file
StorageOutcomes == (0..5) \X BOOLEAN

\* Bid.objects.create
CreateBid ==
    /\ nBids < MaxBids
    /\ nBids' = nBids + 1
    /\ last' = [NoLast EXCEPT !.op = "create"]
    /\ UNCHANGED <<disk, runs, inst, workers, today, fx, rec>>

\* predictor = BidPredictor()
NewPredictor ==
    /\ inst' = FreshInstance
    /\ last' = [NoLast EXCEPT !.op = "new"]
    /\ UNCHANGED <<disk, nBids, runs, workers, today, fx, rec>>

\* predictor.load_models()
LoadModels ==
    /\ inst' = load_models(inst, disk).inst
    /\ last' = [NoLast EXCEPT !.op = "load", !.raised = load_models(inst, disk).raised]
    /\ UNCHANGED <<disk, nBids, runs, workers, today, fx, rec>>

\* predictor.save_models()
SaveModels ==
    \E failAt \in 0..4, torn \in BOOLEAN :
        /\ failAt = 0 => ~torn
        /\ disk' = save_models(inst, disk, failAt, torn).disk
        /\ last' = [NoLast EXCEPT !.op = "save",
                                  !.failed = save_models(inst, disk, failAt, torn).failed]
        /\ UNCHANGED <<nBids, runs, inst, workers, today, fx, rec>>

\* predictor.get_model_status(name)
GetModelStatus ==
    \E name \in StatusNames :
        /\ last' = [NoLast EXCEPT !.op = "status",
                                  !.status = get_model_status(inst, disk, name)]
        /\ UNCHANGED <<disk, nBids, runs, inst, workers, today, fx, rec>>

TrainLast(op, retrain, out, r, response, failAt) ==
    [NoLast EXCEPT !.op = op, !.raised = out.raised, !.retrain = retrain,
                   !.failed = (failAt # 0),
                   !.path = out.path, !.rows = out.rows, !.x_len = out.x_len,
                   !.y_len = out.y_len, !.response = response,
                   !.run = IF out.started THEN r ELSE 0,
                   \* the table, when prepare_training_data returned one
                   !.table = IF out.path \in {"loaded", "extract"} THEN {}
                             ELSE prepare_training_data(nBids)]

\* predictor.train_models(retrain)
TrainModels ==
    \E retrain \in BOOLEAN, st \in StorageOutcomes :
        LET out == train_models(inst, disk, nBids, runs + 1, retrain, st[1], st[2]) IN
        /\ out.started => runs < MaxRuns
        /\ (out.path # "trained") => st = <<0, FALSE>>
        /\ (st[1] = 0) => ~st[2]
        /\ inst' = out.inst
        /\ disk' = out.disk
        /\ runs' = IF out.started THEN runs + 1 ELSE runs
        /\ last' = [TrainLast("train", retrain, out, runs + 1, "", st[1]) EXCEPT
                       \* the call before this one was a load-only call too
                       !.again = (out.path = "loaded" /\ last.op = "train"
                                  /\ last.path = "loaded")]
        /\ UNCHANGED <<nBids, workers, today, fx, rec>>

\* POST to MLTrainingView: a predictor of its own, train_models(retrain=True)
MLTrainingViewPost ==
    \E st \in StorageOutcomes :
        LET out == train_models(FreshInstance, disk, nBids, runs + 1, TRUE, st[1], st[2]) IN
        /\ out.started => runs < MaxRuns
        /\ (out.path # "trained") => st = <<0, FALSE>>
        /\ (st[1] = 0) => ~st[2]
        /\ disk' = out.disk
        /\ runs' = IF out.started THEN runs + 1 ELSE runs
        /\ last' = TrainLast("view_train", TRUE, out, runs + 1, MLTrainingView_post(out.raised), st[1])
        /\ UNCHANGED <<nBids, inst, workers, today, fx, rec>>

\* the scheduled task train_ml_models
TrainMlModelsTask ==
    \E st \in StorageOutcomes :
        LET out == train_models(FreshInstance, disk, nBids, runs + 1, TRUE, st[1], st[2]) IN
        /\ out.started => runs < MaxRuns
        /\ (out.path # "trained") => st = <<0, FALSE>>
        /\ (st[1] = 0) => ~st[2]
        /\ disk' = out.disk
        /\ runs' = IF out.started THEN runs + 1 ELSE runs
        /\ last' = TrainLast("task_train", TRUE, out, runs + 1, train_ml_models(out.raised), st[1])
        /\ UNCHANGED <<nBids, inst, workers, today, fx, rec>>

\* predictor.predict_for_bid(bid) for a bid of the table
PredictForBid ==
    \E b \in 1..nBids : \E out \in predict_for_bid(inst, disk, b, nBids) :
        /\ inst' = out.inst
        /\ last' = [NoLast EXCEPT !.op = "predict", !.raised = out.raised,
                                  !.result = out.result, !.bid = b]
        /\ UNCHANGED <<disk, nBids, runs, workers, today, fx, rec>>

\* The calls the application makes: save_models runs only inside train_models
Next ==
    \/ CreateBid
    \/ NewPredictor
    \/ LoadModels
    \/ TrainModels
    \/ MLTrainingViewPost
    \/ TrainMlModelsTask
    \/ PredictForBid

Spec == Init /\ [][Next]_vars

\* The methods of BidPredictor that read or write the artifact files, with
\* save_models also called on its own, over a bid table large enough to
\* train on
InitSave ==
    /\ disk \in InitialDisks
    /\ nBids = DeployedTable
    /\ runs = 0
    /\ inst = FreshInstance
    /\ last = NoLast
    /\ workers = [p \in Procs |-> IdleWorker]
    /\ today = 0
    /\ fx = IdleFx
    /\ rec = IdleRec

NextSave ==
    \/ NewPredictor
    \/ LoadModels
    \/ SaveModels
    \/ TrainModels
    \/ GetModelStatus

SpecSave == InitSave /\ [][NextSave]_vars

-----------------------------------------------------------------------------
(* Concurrent workers: request handlers and scheduled tasks run in separate *)
(* processes over the same ML_MODELS_DIR, each with a BidPredictor of its   *)
(* own; nothing locks the directory, so their file reads and writes         *)
(* interleave one file at a time. Every write succeeds here.                *)

InitConc ==
    /\ disk = DeployedDisk
    /\ nBids = DeployedTable
    /\ runs = 0
    /\ inst = FreshInstance
    /\ last = NoLast
    /\ workers = [p \in Procs |-> IdleWorker]
    /\ today = 0
    /\ fx = IdleFx
    /\ rec = IdleRec

\* train_models(retrain=True) on the worker's predictor, up to save_models:
\* no file is touched before it
WTrain(p) ==
    LET out == train_models(FreshInstance, disk, nBids, runs + 1, TRUE, 0, FALSE) IN
    /\ workers[p].pc = "idle"
    /\ runs < MaxWorkerRuns
    /\ out.disk = disk
    /\ runs' = runs + 1
    /\ workers' = [workers EXCEPT ![p] =
                      [pc |-> "idle", step |-> 0, inst |-> out.inst, loaded |-> FALSE]]
    /\ UNCHANGED <<disk, nBids, inst, last, today, fx, rec>>

\* save_models is entered
WBeginSave(p) ==
    /\ workers[p].pc = "idle"
    /\ workers[p].inst.win_predictor.run >= 1
    /\ workers' = [workers EXCEPT ![p].pc = "saving", ![p].step = 1]
    /\ UNCHANGED <<disk, nBids, runs, inst, last, today, fx, rec>>

\* one joblib.dump
WSaveStep(p) ==
    /\ workers[p].pc = "saving"
    /\ disk' = dump_step(workers[p].inst, disk, workers[p].step, FALSE, FALSE)
    /\ workers' = [workers EXCEPT
                      ![p].pc = IF workers[p].step = 4 THEN "idle" ELSE "saving",
                      ![p].step = IF workers[p].step = 4 THEN 0 ELSE workers[p].step + 1]
    /\ UNCHANGED <<nBids, runs, inst, last, today, fx, rec>>

\* load_models is entered: by the lazy load of predict_for_bid, or by
\* update_bid_predictions
WBeginLoad(p) ==
    /\ workers[p].pc = "idle"
    /\ workers[p].inst.win_predictor.kind = "none"
    /\ workers' = [workers EXCEPT ![p].pc = "loading", ![p].step = 1]
    /\ UNCHANGED <<disk, nBids, runs, inst, last, today, fx, rec>>

\* one joblib.load and its assignment
WLoadStep(p) ==
    /\ workers[p].pc = "loading"
    /\ workers' = [workers EXCEPT ![p] =
          IF ~Loadable(disk, workers[p].step)
          THEN [workers[p] EXCEPT !.pc = "idle", !.step = 0]
          ELSE [workers[p] EXCEPT
                   !.inst = load_step(workers[p].inst, disk, workers[p].step),
                   !.pc = IF workers[p].step = 4 THEN "idle" ELSE "loading",
                   !.step = IF workers[p].step = 4 THEN 0 ELSE workers[p].step + 1,
                   !.loaded = (workers[p].step = 4)]]
    /\ UNCHANGED <<disk, nBids, runs, inst, last, today, fx, rec>>

\* the worker's request or task ends; the next one builds a new predictor
WFinish(p) ==
    /\ workers[p].pc = "idle"
    /\ workers[p] # IdleWorker
    /\ workers' = [workers EXCEPT ![p] = IdleWorker]
    /\ UNCHANGED <<disk, nBids, runs, inst, last, today, fx, rec>>

NextConc ==
    \E p \in Procs :
        \/ WTrain(p)
        \/ WBeginSave(p)
        \/ WSaveStep(p)
        \/ WBeginLoad(p)
        \/ WLoadStep(p)
        \/ WFinish(p)

SpecConc == InitConc /\ [][NextConc]_vars

-----------------------------------------------------------------------------
(* Feature extraction and risk labelling of one bid, as the days pass *)

InitExtract ==
    /\ disk = EmptyDisk
    /\ nBids = InitialBids
    /\ runs = 0
    /\ inst = FreshInstance
    /\ last = NoLast
    /\ workers = [p \in Procs |-> IdleWorker]
    /\ today = 0
    /\ \E b \in BidInputs, c \in CustomerInputs, o \in OtherBidsInputs :
          fx = [IdleFx EXCEPT !.bid = b, !.customer = c, !.others = o]
    /\ rec = IdleRec

\* bid.save() of a bid that was not stored yet
SaveBid ==
    /\ ~fx.stored
    /\ fx' = [fx EXCEPT !.stored = TRUE, !.extracted = FALSE, !.raised = FALSE, !.at = 0,
                        !.out = NoFeatures, !.risks = <<>>]
    /\ UNCHANGED <<disk, nBids, runs, inst, last, workers, today, rec>>

\* midnight
Tick ==
    /\ today < MaxDay
    /\ today' = today + 1
    /\ UNCHANGED <<disk, nBids, runs, inst, last, workers, fx, rec>>

\* features = self._extract_features(bid)
ExtractFeatures ==
    /\ fx' = IF requirements_raises(fx.bid)
             THEN [fx EXCEPT !.extracted = FALSE, !.raised = TRUE, !.at = today,
                             !.out = NoFeatures, !.risks = <<>>]
             ELSE [fx EXCEPT !.extracted = TRUE, !.raised = FALSE, !.at = today,
                             !.out = extract_features(fx.bid, fx.customer, fx.stored,
                                                      fx.others, today),
                             !.risks = <<>>]
    /\ UNCHANGED <<disk, nBids, runs, inst, last, workers, today, rec>>

\* self._calculate_risk_scores(df) on the table made of the extracted row
CalculateRiskScores ==
    /\ fx.extracted
    /\ fx' = [fx EXCEPT !.risks = calculate_risk_scores(<<fx.out>>)]
    /\ UNCHANGED <<disk, nBids, runs, inst, last, workers, today, rec>>

NextExtract ==
    \/ SaveBid
    \/ Tick
    \/ ExtractFeatures
    \/ CalculateRiskScores

SpecExtract == InitExtract /\ [][NextExtract]_vars

-----------------------------------------------------------------------------
(* Recommendations for one prediction *)

InitRecommend ==
    /\ disk = EmptyDisk
    /\ nBids = InitialBids
    /\ runs = 0
    /\ inst = FreshInstance
    /\ last = NoLast
    /\ workers = [p \in Procs |-> IdleWorker]
    /\ today = 0
    /\ fx = IdleFx
    /\ \E b \in RecBidInputs, res \in ResultInputs :
          rec = [IdleRec EXCEPT !.bid = b, !.prediction = PredictionDict(res, b)]

\* predictor.get_recommendations(bid, prediction)
GetRecommendations ==
    /\ rec' = [rec EXCEPT !.called = TRUE,
                          !.out = get_recommendations(rec.bid, rec.prediction)]
    /\ UNCHANGED <<disk, nBids, runs, inst, last, workers, today, fx>>

NextRecommend == GetRecommendations

SpecRecommend == InitRecommend /\ [][NextRecommend]_vars

-----------------------------------------------------------------------------
(* Properties *)

TrainOps == {"train", "view_train", "task_train"}

EligibleRows == Cardinality(TrainingRows(nBids))

NoPklFiles(d) == \A k \in 1..4 : d[PklFiles[k]].state = "absent"

HoldsNone(i) ==
    /\ i.win_predictor.kind = "none"
    /\ i.risk_predictor.kind = "none"
    /\ ~i.scaler.fitted
    /\ ~i.label_encoders.fitted

HoldsAll(i) ==
    /\ i.win_predictor.kind = "model" /\ i.win_predictor.fitted
    /\ i.risk_predictor.kind = "model" /\ i.risk_predictor.fitted
    /\ i.scaler.kind = "scaler" /\ i.scaler.fitted
    /\ i.label_encoders.kind = "encoders" /\ i.label_encoders.fitted

OneSet(i) ==
    /\ i.risk_predictor.run = i.win_predictor.run
    /\ i.scaler.run = i.win_predictor.run
    /\ i.label_encoders.run = i.win_predictor.run

CompleteSetLoaded(i) == HoldsAll(i) /\ OneSet(i)

\* the bid has a categorical value that the encoders fitted on a table of t
\* bids have no class for
HasUnseenCategory(b, n, t) ==
    \E col \in CatColumns :
        FeatureValue(b, n, col) \notin {FeatureValue(j, t, col) : j \in TrainingRows(t)}

\* C1: every call of predict_for_bid returns a result and raises nothing; a
\* result is the default or a model-derived one.
C1_PredictNeverRaises ==
    last.op = "predict" =>
        /\ ~last.raised
        /\ \/ last.result = DefaultPrediction
           \/ last.result.confidence = ModelConfidence

\* C2: a train_models(retrain=True) run that finds at least 10 eligible bids
\* and meets no storage error does not raise, and leaves the four .pkl files
\* and feature_importance.json all written by that run.
C2_RetrainWritesAllFiles ==
    (last.op \in TrainOps /\ last.retrain /\ last.rows >= MinTrainingRows /\ ~last.failed) =>
        /\ ~last.raised
        /\ \A f \in AllFiles : disk[f].state = "ok" /\ disk[f].obj.run = last.run

\* C3: the label vector handed to the risk regressor's fit has the length of
\* the training split: one rule-computed label per training row.
C3_RiskLabelsMatchTrainSplit ==
    (last.op \in TrainOps /\ last.path \in {"risk_fit", "trained"}) =>
        last.y_len = last.x_len

\* C5: after any sequence of load_models, train_models and predict_for_bid
\* calls the instance holds none or all four of win predictor, risk
\* predictor, fitted scaler and label encoders, and all four come from one
\* artifact set.
C5_InstanceNoneOrOneSet == HoldsNone(inst) \/ CompleteSetLoaded(inst)

\* C7: train_models on fewer than 10 eligible bids (retrain=True, or
\* retrain=False without a complete set of files) changes no artifact file
\* and leaves the instance's models, scaler and encoders as they were.
C7_InsufficientDataChangesNothing ==
    [][(/\ last'.op \in TrainOps
        /\ EligibleRows < MinTrainingRows
        /\ (last'.retrain \/ ~models_exist(disk)))
       => (disk' = disk /\ inst' = inst)]_vars

C7_Witness ==
    /\ last.op = "train" /\ last.retrain /\ last.path = "insufficient"
    /\ last.rows = MinTrainingRows - 1
    /\ disk = DeployedDisk
    /\ inst = DeployedInstance

\* C8: when training aborts for lack of data, the caller gets a failure
\* signal: train_models does not return normally as a successful run does, and
\* neither the training endpoint nor the scheduled task reports success.
C8_InsufficientDataReported ==
    (last.op \in TrainOps /\ last.path = "insufficient") =>
        /\ last.raised
        /\ last.response # "ML models trained successfully"
        /\ last.response # "Models trained successfully"

\* C9: predict_for_bid on a fresh instance with no artifact file present
\* returns exactly the default result and does not raise.
C9_NoArtifactGivesDefault ==
    [][(last'.op = "predict" /\ inst = FreshInstance /\ NoPklFiles(disk))
       => (~last'.raised /\ last'.result = DefaultPrediction)]_vars

C9_Witness ==
    /\ last.op = "predict" /\ last.result = DefaultPrediction
    /\ ~ExtractOk(last.bid)
    /\ inst = FreshInstance
    /\ disk = EmptyDisk

C4_FailedSaveKeepsPreviousSet ==
    [][(/\ last'.op \in TrainOps \cup {"save"}
        /\ last'.failed
        /\ inst'.win_predictor.run >= 1)
       => (disk' = disk /\ ~last'.raised)]_vars

AllLoadable(d) == \A k \in 1..4 : Loadable(d, k)

\* the four objects stored in the .pkl files
LoadedSet(d) == [s \in {Slots[k] : k \in 1..4} |-> d[PklFiles[CHOOSE k \in 1..4 : Slots[k] = s]].obj]

\* C11: train_models(retrain=False) with the four files present and loadable
\* only loads them: no bid is read, nothing is fitted, no file is written, the
\* instance holds exactly the stored set, and a second such call in a row
\* leaves the instance as the first left it.
C11_LoadOnlyIsIdempotent ==
    [][(last'.op = "train" /\ ~last'.retrain /\ AllLoadable(disk))
       => (/\ last'.path = "loaded" /\ ~last'.raised
           /\ last'.rows = 0 /\ last'.run = 0 /\ runs' = runs
           /\ disk' = disk
           /\ inst' = LoadedSet(disk)
           /\ (last'.again => inst' = inst))]_vars

C11_Witness ==
    /\ last.op = "train" /\ ~last.retrain /\ last.path = "loaded" /\ last.again
    /\ AllLoadable(disk)
    /\ inst = LoadedSet(disk)
    /\ nBids > DeployedTable

\* C12: predict_for_bid leaves the bid table and every artifact file as they
\* are; with a win predictor in memory it changes nothing of the instance
\* (encoders and scaler included), and without one the only change is that
\* fields take the objects stored in their files.
C12_PredictOnlyLazyLoads ==
    [][(last'.op = "predict")
       => (/\ disk' = disk /\ nBids' = nBids /\ runs' = runs
           /\ (inst.win_predictor.kind # "none" => inst' = inst)
           /\ \A k \in 1..4 :
                 \/ inst'[Slots[k]] = inst[Slots[k]]
                 \/ /\ inst.win_predictor.kind = "none"
                    /\ Loadable(disk, k)
                    /\ inst'[Slots[k]] = disk[PklFiles[k]].obj)]_vars

\* a prediction made with the fits of a training run in memory, over a
\* directory that holds another set
C12_Witness ==
    /\ last.op = "predict" /\ ~last.raised
    /\ inst.win_predictor.run = 1 /\ inst.scaler.run = 1
    /\ disk = DeployedDisk

ResultKeys == {"win_probability", "risk_score", "confidence", "features", "timestamp"}

\* C13: every result predict_for_bid returns, the default one included, has
\* the five keys win_probability, risk_score, confidence, features, timestamp.
C13_ResultHasFiveKeys ==
    (last.op = "predict" /\ ~last.raised) => last.result.keys = ResultKeys

\* C14: in every result predict_for_bid returns, win_probability and
\* risk_score lie in [0, 1] (0..100 hundredths), whatever the regressors output.
C14_ScoresInUnitInterval ==
    (last.op = "predict" /\ ~last.raised) =>
        /\ last.result.win_probability \in 0..100
        /\ last.result.risk_score \in 0..100

\* C15: after a train_models(retrain=True) run that fitted on its training
\* table, on a fresh instance or on one that already held encoders and a
\* scaler, the encoders and the scaler in memory are those this run fitted on
\* this table, and so are the ones on disk once the run has saved.
C15_RetrainReplacesEncodersAndScaler ==
    (last.op = "train" /\ last.retrain /\ last.path \in {"risk_fit", "trained"}) =>
        /\ inst.label_encoders = Encoders(last.run, TRUE, nBids)
        /\ inst.scaler = Scaler(last.run, TRUE)
        /\ (last.path = "trained" /\ ~last.failed) =>
              /\ disk["label_encoders.pkl"] = Stored(Encoders(last.run, TRUE, nBids))
              /\ disk["scaler.pkl"] = Stored(Scaler(last.run, TRUE))

\* C16: when extraction fails for an eligible bid while the training table is
\* built, that bid is left out and training goes on with the other eligible
\* bids: the table holds exactly the rows that could be extracted.
C16_FailedExtractionSkipsBid ==
    (last.op \in TrainOps /\ last.path # "loaded" /\ ~PrepareOk(nBids)) =>
        /\ last.path # "extract"
        /\ last.rows = Cardinality({i \in TrainingRows(nBids) : ExtractOk(i)})

\* two rates given as <<numerator, denominator>> are the same number
SameRate(p, q) == p[1] * q[2] = q[1] * p[2]

\* C17: for a bid whose customer has no other bid, stored or not yet stored,
\* _extract_features yields historical_win_rate 0.5.
C17_NoPriorBidsGivesHalf ==
    (fx.extracted /\ fx.others = <<>>) => SameRate(fx.out.historical_win_rate, <<1, 2>>)

\* C18: two calls of _extract_features on the same bid over the same database
\* contents return equal feature vectors, whenever they are made.
C18_ExtractionDeterministic ==
    [][(ExtractFeatures /\ fx.extracted) => fx'.out = fx.out]_vars

\* the stored value of a nullable column, or d when it is NULL
StoredOr(f, d) == IF f.null THEN d ELSE f.v

\* C19: each numeric feature is the stored value when there is one, and 0
\* (0.5 for complexity_score) when it is missing; extraction does not fail.
C19_NumericFeaturesStoredOrDefault ==
    fx.extracted =>
        /\ fx.out.bid_value = StoredOr(fx.bid.bid_value, 0)
        /\ fx.out.estimated_cost = StoredOr(fx.bid.estimated_cost, 0)
        /\ fx.out.profit_margin = StoredOr(fx.bid.profit_margin, 0)
        /\ fx.out.days_until_due =
              (IF fx.bid.bid_due_date.null THEN 0 ELSE fx.bid.bid_due_date.v - fx.at)
        /\ fx.out.customer_annual_revenue = StoredOr(fx.customer.annual_revenue, 0)
        /\ LET cb == customer_bids(fx.bid, fx.stored, fx.others)
               priced == {k \in 1..Len(cb) : ~cb[k].bid_value.null}
           IN  SameRate(fx.out.avg_bid_value,
                        IF priced = {} THEN <<0, 1>>
                        ELSE <<SumBidValues(cb), Cardinality(priced)>>)
        /\ fx.out.complexity_score = StoredOr(fx.bid.complexity_score, DefaultComplexity)

\* the row meets the four risk conditions
MeetsAllFour(row) ==
    /\ row.bid_value > HighValueThreshold
    /\ row.customer_relationship_score < LowRelationshipThreshold
    /\ row.complexity_score > HighComplexityThreshold
    /\ row.days_until_due < UrgentDays

\* C20: a row that meets all four risk conditions gets risk label 1.0
\* (10 tenths) from _calculate_risk_scores.
C20_AllFourConditionsGiveOne ==
    (fx.risks # <<>> /\ MeetsAllFour(fx.out)) => fx.risks[1] = 10

\* C20, amended: a row that meets all four risk conditions gets the sum of
\* the four increments, 0.9 (9 tenths), which the clamp leaves as it is.
C20_AllFourConditionsGiveNineTenths ==
    (fx.risks # <<>> /\ MeetsAllFour(fx.out)) => fx.risks[1] = 9

\* bid_value 2,000,000, relationship score 10, complexity_score 0.9, 3 days
\* until due
C20_Witness ==
    /\ fx.risks = <<9>>
    /\ fx.out.bid_value = 2000
    /\ fx.out.customer_relationship_score = 10
    /\ fx.out.complexity_score = 90
    /\ fx.out.days_until_due = 3

\* C21: every row gets 0.3 if bid_value > 1,000,000, plus 0.2 if the
\* relationship score < 30, plus 0.2 if complexity_score > 0.7, plus 0.2 if
\* days_until_due < 7, all comparisons strict, within [0, 1] (tenths here).
C21_RiskLabelIsSumOfIncrements ==
    (fx.risks # <<>>) =>
        /\ Len(fx.risks) = 1
        /\ fx.risks[1] = (IF fx.out.bid_value > 1000 THEN 3 ELSE 0)
                          + (IF fx.out.customer_relationship_score < 30 THEN 2 ELSE 0)
                          + (IF fx.out.complexity_score > 70 THEN 2 ELSE 0)
                          + (IF fx.out.days_until_due < 7 THEN 2 ELSE 0)
        /\ fx.risks[1] \in 0..10

\* bid_value 5000, relationship score 80, complexity_score 0.1, 60 days until
\* due: label 0
C21_Witness ==
    /\ fx.risks = <<0>>
    /\ fx.out.bid_value = 5
    /\ fx.out.customer_relationship_score = 80
    /\ fx.out.complexity_score = 10
    /\ fx.out.days_until_due = 60

\* the strings the claim lists for a prediction that carries both features
ExpectedRecommendations(prediction) ==
    (IF prediction.win_probability < 30 THEN Range(StrategyRevision) ELSE {})
    \cup (IF prediction.win_probability >= 30 /\ prediction.win_probability < 60
          THEN Range(Differentiators) ELSE {})
    \cup (IF prediction.risk_score > 70 THEN Range(RiskMitigation) ELSE {})
    \cup (IF prediction.features.customer_relationship_score < 40 THEN {Engagement} ELSE {})
    \cup (IF prediction.features.days_until_due < 14 THEN {Acceleration} ELSE {})

HasBothFeatures(prediction) ==
    {"customer_relationship_score", "days_until_due"} \subseteq DOMAIN prediction.features

\* C22: get_recommendations returns, each string once, the strategy-revision
\* strings iff win_probability < 0.3, the differentiator strings iff
\* 0.3 <= win_probability < 0.6, the risk-mitigation strings iff risk_score >
\* 0.7, the engagement string iff the relationship score feature < 40, the
\* acceleration string iff the days_until_due feature < 14, and nothing else.
C22_RecommendationsAreTheUnion ==
    (rec.called /\ HasBothFeatures(rec.prediction)) =>
        /\ DOMAIN rec.out = ExpectedRecommendations(rec.prediction)
        /\ \A x \in DOMAIN rec.out : rec.out[x] = 1

\* win_probability 0.2, risk_score 0.8, relationship score 20, 5 days: the
\* nine strings
C22_Witness ==
    /\ rec.called
    /\ rec.prediction.win_probability = 20 /\ rec.prediction.risk_score = 80
    /\ HasBothFeatures(rec.prediction)
    /\ rec.prediction.features.customer_relationship_score = 20
    /\ rec.prediction.features.days_until_due = 5
    /\ Cardinality(DOMAIN rec.out) = 9

IsDefaultDict(prediction) ==
    /\ prediction.win_probability = DefaultScore
    /\ prediction.risk_score = DefaultScore
    /\ DOMAIN prediction.features = {}

\* C30: for the default prediction get_recommendations returns exactly six
\* strings, the four differentiator strings, the engagement string and the
\* acceleration string, whatever the bid's relationship score and due date.
C30_DefaultGivesSixStrings ==
    (rec.called /\ IsDefaultDict(rec.prediction)) =>
        /\ DOMAIN rec.out = Range(Differentiators) \cup {Engagement, Acceleration}
        /\ Cardinality(DOMAIN rec.out) = 6
        /\ \A x \in DOMAIN rec.out : rec.out[x] = 1

\* the default prediction for a bid with relationship score 80 and 60 days
\* until due
C30_Witness ==
    /\ rec.called /\ IsDefaultDict(rec.prediction)
    /\ rec.bid.relationship_score = 80 /\ rec.bid.days_until_due = 60
    /\ Engagement \in DOMAIN rec.out /\ Acceleration \in DOMAIN rec.out

\* the rows of the table of t bids, by position
FitRows(t) == 0..(Cardinality(TrainingRows(t)) - 1)

FitBid(pos, t) == CHOOSE k \in TrainingRows(t) : RowPosition(k, t) = pos

FitValue(col, pos, t) == FeatureValue(FitBid(pos, t), t, col)

\* the number of distinct values of the column met before the first row that
\* holds the value of row pos
FirstEncounterCode(col, pos, t) ==
    LET first(v) == CHOOSE q \in FitRows(t) :
                        /\ FitValue(col, q, t) = v
                        /\ \A q2 \in FitRows(t) : FitValue(col, q2, t) = v => q <= q2
    IN  Cardinality({first(FitValue(col, q, t)) : q \in FitRows(t)}
                    \cap {q \in FitRows(t) : q < first(FitValue(col, pos, t))})

FirstEncounterTables ==
    [t \in 0..MaxBids |->
        \A col \in CatColumns : \A pos \in FitRows(t) :
            fit_transform(col, t)[pos] = FirstEncounterCode(col, pos, t)]

\* C23: when the encoders are fitted on a training table, the distinct values
\* of each categorical column receive the codes 0, 1, 2, ... in the order in
\* which they are first encountered in the column.
C23_CodesInOrderOfFirstEncounter ==
    inst.label_encoders.fitted => FirstEncounterTables[inst.label_encoders.table]

RoundTripTables ==
    [t \in 0..MaxBids |->
        \A col \in CatColumns : \A pos \in FitRows(t) :
            transform(col, FitValue(col, pos, t), Encoders(0, TRUE, t))
                = fit_transform(col, t)[pos]]

C25_StatusFollowsTheModelFile ==
    (last.op = "status") =>
        /\ ~last.raised
        /\ last.status.keys = {"name", "status", "accuracy", "last_trained", "version"}
        /\ IF ModelFile(disk, last.status.name).state # "ok"
           THEN /\ last.status.status = "error"
                /\ last.status.accuracy = "None"
                /\ last.status.last_trained.null
                /\ last.status.version = "None"
           ELSE /\ last.status.status = "trained"
                /\ last.status.version = "1.0"
                /\ ~last.status.last_trained.null
                /\ last.status.last_trained.mtime_of = last.status.name

\* what C25 says, for the predictors the application asks: a predictor that
\* holds no regressor in memory
C25_StatusOfFreshPredictor ==
    (last.op = "status" /\ inst.win_predictor.kind = "none"
        /\ inst.risk_predictor.kind = "none") => C25_StatusFollowsTheModelFile

\* C26: the training table built by prepare_training_data holds exactly one
\* row per bid whose status is won, lost, approved or rejected and no row for
\* a bid in any other status, and a row's target is 1 iff its bid's status is
\* won or approved, else 0.
C26_TableRowsAndTargets ==
    (last.op \in TrainOps /\ last.path \notin {"loaded", "extract"}) =>
        /\ {row[1] : row \in last.table}
              = {i \in 1..nBids : BidStatus(i) \in {"won", "lost", "approved", "rejected"}}
        /\ Cardinality(last.table) = Cardinality({row[1] : row \in last.table})
        /\ last.rows = Cardinality(last.table)
        /\ \A row \in last.table :
              row[2] = (IF BidStatus(row[1]) \in {"won", "approved"} THEN 1 ELSE 0)

\* a table of ten rows built from eleven bids, one of them a draft, with
\* approved bids among the positive rows and lost bids among the others
C26_Witness ==
    /\ last.op \in TrainOps /\ nBids = 11 /\ last.rows = 10
    /\ 6 \notin {row[1] : row \in last.table}
    /\ \E row \in last.table : BidStatus(row[1]) = "approved" /\ row[2] = 1
    /\ \E row \in last.table : BidStatus(row[1]) = "lost" /\ row[2] = 0

\* both regressors were evaluated on the features of the bid of the last call
ModelDerived ==
    /\ last.result.features = "extracted"
    /\ EncodeOk(inst, last.bid, nBids) /\ ScaleOk(inst) /\ EvalOk(inst)
    /\ last.result.win_probability \in RegressorOutputs
    /\ last.result.risk_score \in RegressorOutputs

\* C27: in a result of predict_for_bid, confidence is 0.8 exactly when the
\* result is model-derived and 0.5 exactly when it is the fallback default;
\* no other confidence value is returned.
C27_ConfidenceIsOneOfTwoConstants ==
    (last.op = "predict" /\ ~last.raised) =>
        /\ last.result.confidence \in {80, 50}
        /\ (last.result.confidence = 80) <=> ModelDerived
        /\ (last.result.confidence = 50) <=> (last.result = DefaultPrediction)
        /\ ModelDerived \/ last.result = DefaultPrediction

\* a model-derived result whose win probability is outside [0, 1] and whose
\* confidence is 0.8 all the same
C27_Witness ==
    /\ last.op = "predict" /\ ~last.raised /\ ModelDerived
    /\ last.result.win_probability = 120
    /\ last.result.confidence = 80

FeatureNames ==
    {"bid_value", "estimated_cost", "profit_margin", "days_until_due",
     "complexity_score", "customer_relationship_score", "customer_annual_revenue",
     "customer_type", "customer_industry", "historical_win_rate", "avg_bid_value",
     "team_size", "review_cycle_count", "description_length", "requirements_count",
     "business_unit", "bid_level", "priority", "complexity", "region"}

\* C28: for every bid, _extract_features returns a mapping whose key set is
\* exactly the 20 feature names.
C28_EveryBidYieldsTheTwentyKeys ==
    (fx.extracted \/ fx.raised) =>
        /\ fx.extracted
        /\ DOMAIN fx.out = FeatureNames
        /\ Cardinality(DOMAIN fx.out) = 20

\* what holds of the code: a mapping that is returned has exactly the 20 keys,
\* missing values or not
C28_ReturnedMappingHasTheTwentyKeys ==
    fx.extracted => (DOMAIN fx.out = FeatureNames /\ Cardinality(DOMAIN fx.out) = 20)

\* C29: with retrain=False, train_models skips training only when the four
\* artifact files exist and load; when a file is missing, or the set is
\* complete but cannot be loaded, it goes on to train and does not raise.
C29_UnloadableSetFallsBackToTraining ==
    [][(last'.op = "train" /\ ~last'.retrain)
       => /\ (last'.path = "loaded" /\ ~last'.raised) => AllLoadable(disk)
          /\ ~AllLoadable(disk) => (last'.path # "loaded" /\ ~last'.raised)]_vars

\* what the code does with a complete set that cannot be loaded: the error of
\* load_models leaves train_models, and no training is attempted
C29_UnloadableSetRaises ==
    [][(last'.op = "train" /\ ~last'.retrain /\ models_exist(disk) /\ ~AllLoadable(disk))
       => (last'.path = "loaded" /\ last'.raised /\ last'.rows = 0 /\ runs' = runs)]_vars

DiskOneSet(d) ==
    \A j, k \in 1..4 :
        (d[PklFiles[j]].state = "ok" /\ d[PklFiles[k]].state = "ok")
            => d[PklFiles[j]].obj.run = d[PklFiles[k]].obj.run

\* C6: whenever load_models and save_models of different workers interleave,
\* a set a worker has loaded holds the files of one training run only, and so
\* does the directory once no save is in progress.
C6_NoMixedArtifactSets ==
    /\ \A p \in Procs :
          (workers[p].pc = "idle" /\ workers[p].loaded) => OneSet(workers[p].inst)
    /\ (\A p \in Procs : workers[p].pc # "saving") => DiskOneSet(disk)

====
